---- MODULE Spec2Model ----
(***************************************************************************)
(* Model of the OM Yashoda Dairy storefront: the order submission          *)
(* serverless handler (src/api/submit-order.js) with its in-memory rate    *)
(* limiter and payload validation, and the browser checkout                *)
(* (src/js/checkout.js) that persists an order and then posts it to the    *)
(* handler.                                                                *)
(***************************************************************************)
EXTENDS Integers, Sequences, FiniteSets, TLC

(***************************************************************************)
(* Bounds of the model.                                                    *)
(***************************************************************************)
\* granularity of the clock, in milliseconds (20 minutes)
TickMs == 1200000
\* the clock stops after this many ticks
MaxTicks == 3
\* a cart given to a cart function holds at most this many items ...
MaxCartLen == 2
\* ... each with a quantity of at most this
MaxQty == 3
\* the page makes at most this many cart calls
MaxCalls == 2
\* at most this many addToCart calls are suspended at once
MaxInFlight == 2

(***************************************************************************)
(* Program constants.                                                      *)
(***************************************************************************)
\* submit-order.js:75   const windowMs = 60 * 60 * 1000
windowMs == 60 * 60 * 1000
\* submit-order.js:76   const maxRequests = 5
maxRequests == 5

\* client identifiers: x-forwarded-for / remoteAddress / 'unknown'
IPs == {"10.0.0.1", "unknown"}

\* the slots in which the serverless process handles requests: the POST of the
\* browser checkout and a request of any other HTTP client
Slots == {"checkout", "direct"}

\* the network identifier of the browser that runs the checkout
BrowserIp == "10.0.0.1"

VARIABLES
    now,             \* Date.now() of the serverless process, in ms
    rateLimitStore,  \* the Map ip -> array of timestamps
    accepted,        \* history: ip -> every timestamp isRateLimited accepted
    lastCheck,       \* history: the last isRateLimited call and its answer
    resend,          \* TRUE iff RESEND_API_KEY is set (the Resend client exists)
    inflight,        \* slot -> the handler invocation suspended in that slot
    lastResp,        \* history: the last response the handler sent
    orders,          \* the orders collection of the store
    users,           \* the users collection of the store: uid -> profile fields
    cart,            \* the cart slot of localStorage
    cachedProducts,  \* products.js cachedProducts: loaded or not
    ck,              \* the processCheckout invocation of the page
    adds,            \* the addToCart invocations suspended at getProductById
    lastCall,        \* history: the last cart or validation call and its result
    args,            \* the argument a validation function is about to be called with
    fetches          \* the fetchProducts invocations suspended at fetch('/api/products')

rlVars == <<now, rateLimitStore, accepted, lastCheck>>
apiVars == <<resend, inflight, lastResp>>
webVars == <<orders, users, cart, cachedProducts, ck>>
pageVars == <<adds, lastCall, args, fetches>>

vars == <<now, rateLimitStore, accepted, lastCheck, resend, inflight, lastResp,
          orders, users, cart, cachedProducts, ck, adds, lastCall, args, fetches>>

NoCheck == [ip |-> "none", at |-> 0, limited |-> FALSE, recentAccepted |-> 0]

(***************************************************************************)
(* Rate limiter, submit-order.js:73-96                                     *)
(***************************************************************************)
\* rateLimitStore.get(ip) after the has/set of lines 78-80
requestsOf(store, ip) == IF ip \in DOMAIN store THEN store[ip] ELSE <<>>

\* line 85 without the purge
recentRequests_noPurge(requests, t) == requests

\* line 85 with a window of two hours
recentRequests_twoHours(requests, t) ==
    SelectSeq(requests, LAMBDA timestamp : t - timestamp < 2 * windowMs)

\* line 85: requests.filter(timestamp => now - timestamp < windowMs)
recentRequests(requests, t) ==
    SelectSeq(requests, LAMBDA timestamp : t - timestamp < windowMs)

\* line 87 with an off-by-one comparison
overLimit_offByOne(recent) == Len(recent) > maxRequests

\* line 87: recentRequests.length >= maxRequests
overLimit(recent) == Len(recent) >= maxRequests

\* the value isRateLimited(ip) returns at time t
isRateLimited(store, ip, t) ==
    overLimit(recentRequests(requestsOf(store, ip), t))

\* lines 91-93 run for a rejected request as well
storeAfterCheck_recordsRejected(store, ip, t) ==
    [i \in (DOMAIN store) \cup {ip} |->
        IF i = ip THEN Append(recentRequests(requestsOf(store, ip), t), t)
        ELSE store[i]]

\* the Map after isRateLimited(ip) at time t
storeAfterCheck(store, ip, t) ==
    LET recent == recentRequests(requestsOf(store, ip), t)
        s1 == [i \in (DOMAIN store) \cup {ip} |-> requestsOf(store, i)]
    IN  IF overLimit(recent)
        THEN s1
        ELSE [s1 EXCEPT ![ip] = Append(recent, t)]

\* history: how many accepted requests of ip are less than windowMs before t
CountRecent(hist, t) ==
    Cardinality({i \in DOMAIN hist : t - hist[i] < windowMs})

\* the bookkeeping of one isRateLimited(ip) call
CheckRateLimit(ip) ==
    LET limited == isRateLimited(rateLimitStore, ip, now)
    IN  /\ rateLimitStore' = storeAfterCheck(rateLimitStore, ip, now)
        /\ accepted' = IF limited THEN accepted
                       ELSE [accepted EXCEPT ![ip] = Append(@, now)]
        /\ lastCheck' = [ip |-> ip, at |-> now, limited |-> limited,
                         recentAccepted |-> CountRecent(accepted[ip], now)]

\* a request of ip reaches the rate limiter
RateLimitCall ==
    \E ip \in IPs :
        /\ CheckRateLimit(ip)
        /\ UNCHANGED <<now, apiVars, webVars, pageVars>>

\* time passes
Tick ==
    /\ now < MaxTicks * TickMs
    /\ now' = now + TickMs
    /\ UNCHANGED <<rateLimitStore, accepted, lastCheck>>
    /\ UNCHANGED <<apiVars, webVars, pageVars>>

(***************************************************************************)
(* Request payloads.  A text is a sequence of characters; the empty text   *)
(* stands for every falsy value of a field (undefined, null, '').  items   *)
(* and total carry their JavaScript type.                                  *)
(***************************************************************************)
T_Ram == <<"R", "a", "m">>
T_Phone == <<"9", "8", "7", "6", "5", "4", "3", "2", "1", "0">>
T_Address == <<"1", "2", " ", "M", "G", " ", "R", "o", "a", "d">>
T_Email == <<"a", "@", "b", ".", "c">>

\* the identifiers generateOrderId can return on one day (the random suffix)
OrderIds == {"ORD-20261102-001", "ORD-20261102-002"}

\* req.body when the request carries no body
NoBody == [present |-> FALSE]

NoCustomer == [present |-> FALSE, name |-> <<>>, phone |-> <<>>,
               address |-> <<>>, email |-> <<>>]

GoodCustomer == [present |-> TRUE, name |-> T_Ram, phone |-> T_Phone,
                 address |-> T_Address, email |-> T_Email]

GoodBody == [present |-> TRUE, orderId |-> "ORD-20261102-001", userId |-> "u1",
             customer |-> GoodCustomer,
             items |-> [isArray |-> TRUE, length |-> 1],
             total |-> [isNumber |-> TRUE, value |-> 60]]

\* payloads that pass validateOrderData
ValidBodies ==
    {[[GoodBody EXCEPT !.orderId = id] EXCEPT !.customer.email = e] :
        id \in OrderIds, e \in {<<>>, T_Email}}

\* payloads that break one rule, or all of them
InvalidBodies ==
    { [GoodBody EXCEPT !.orderId = ""],
      [GoodBody EXCEPT !.userId = ""],
      [GoodBody EXCEPT !.customer = NoCustomer],
      [GoodBody EXCEPT !.items = [isArray |-> FALSE, length |-> 0]],
      [GoodBody EXCEPT !.items = [isArray |-> TRUE, length |-> 0]],
      [GoodBody EXCEPT !.customer.name = <<>>],
      [GoodBody EXCEPT !.customer.phone = <<>>],
      [GoodBody EXCEPT !.customer.address = <<>>],
      [GoodBody EXCEPT !.total = [isNumber |-> FALSE, value |-> 0]],
      [GoodBody EXCEPT !.total = [isNumber |-> TRUE, value |-> 0]],
      [present |-> TRUE, orderId |-> "", userId |-> "", customer |-> NoCustomer,
       items |-> [isArray |-> TRUE, length |-> 0],
       total |-> [isNumber |-> TRUE, value |-> 0 - 5]] }

\* what an HTTP client can send as the body of a request
PostBodies == ValidBodies \cup InvalidBodies \cup {NoBody}

Methods == {"POST", "OPTIONS", "GET"}

\* !x of a text field
Falsy(text) == text = <<>>

(***************************************************************************)
(* validateOrderData, submit-order.js:108-135                              *)
(***************************************************************************)
Rule(violated, message) == IF violated THEN <<message>> ELSE <<>>

\* lines 109-129: the errors array
validateOrderErrors(orderData) ==
    Rule(orderData.orderId = "", "Order ID is required")
    \o Rule(orderData.userId = "", "User ID is required")
    \o Rule(~orderData.customer.present, "Customer details are required")
    \o Rule(~orderData.items.isArray \/ orderData.items.length = 0,
            "Order must contain at least one item")
    \o (IF orderData.customer.present
        THEN Rule(Falsy(orderData.customer.name), "Customer name is required")
             \o Rule(Falsy(orderData.customer.phone), "Customer phone is required")
             \o Rule(Falsy(orderData.customer.address), "Customer address is required")
        ELSE <<>>)
    \o Rule(~orderData.total.isNumber \/ orderData.total.value <= 0,
            "Invalid order total")

\* lines 131-134
validateOrderData(orderData) ==
    [isValid |-> validateOrderErrors(orderData) = <<>>,
     errors |-> validateOrderErrors(orderData)]

(***************************************************************************)
(* Notifications, submit-order.js:227-301 and 313-384.  A notification is  *)
(* the promise its function returned: "pending" while resend.emails.send   *)
(* is in flight, then "true" (sent) or "false" (the send threw and was     *)
(* caught); "false" at once when the function returns early.               *)
(***************************************************************************)
\* lines 228-231, 288
sendEmailToOwner(orderData) == IF ~resend THEN "false" ELSE "pending"

\* lines 314-317, 371
sendEmailConfirmation(orderData) ==
    IF ~resend \/ Falsy(orderData.customer.email) THEN "false" ELSE "pending"

\* line 447 with the guard dropped
wantsConfirmation_always(orderData) == TRUE

\* line 447: if (orderData.customer.email)
wantsConfirmation(orderData) == ~Falsy(orderData.customer.email)

\* lines 438-449: the notifications array
startNotifications(orderData) ==
    <<sendEmailToOwner(orderData)>>
    \o (IF wantsConfirmation(orderData)
        THEN <<sendEmailConfirmation(orderData)>>
        ELSE <<>>)

(***************************************************************************)
(* handler, submit-order.js:394-475                                        *)
(***************************************************************************)
IdleRequest == [pc |-> "idle", ip |-> "none", body |-> NoBody,
                notifications |-> <<>>]

NoResponse == [origin |-> "none", method |-> "none", body |-> NoBody,
               status |-> 0, success |-> FALSE, errors |-> <<>>,
               orderId |-> "", limited |-> FALSE, calls |-> 0]

\* res.status(status).json({success, errors, orderId}) or .end()
Response(slot, method, body, status, success, errors, orderId, limited, calls) ==
    [origin |-> slot, method |-> method, body |-> body, status |-> status,
     success |-> success, errors |-> errors, orderId |-> orderId,
     limited |-> limited, calls |-> calls]

\* lines 455-458 throw a TypeError when notifications[1] is undefined
logThrows(notifications) == Len(notifications) < 2

\* lines 455-474: the response once Promise.allSettled has resolved
finalResponse(slot, req) ==
    IF logThrows(req.notifications)
    THEN Response(slot, "POST", req.body, 500, FALSE, <<>>, "", FALSE,
                  Len(req.notifications))
    ELSE Response(slot, "POST", req.body, 200, TRUE, <<>>, req.body.orderId,
                  FALSE, Len(req.notifications))

\* the response the handler sends before its first await, status 0 if none:
\* lines 401-435, given the answer of isRateLimited
syncResponse(slot, method, body, limited) ==
    IF method = "OPTIONS"
    THEN Response(slot, method, body, 200, FALSE, <<>>, "", FALSE, 0)
    ELSE IF method /= "POST"
    THEN Response(slot, method, body, 405, FALSE, <<>>, "", FALSE, 0)
    ELSE IF limited
    THEN Response(slot, method, body, 429, FALSE, <<>>, "", TRUE, 0)
    ELSE IF ~body.present
    THEN Response(slot, method, body, 500, FALSE, <<>>, "", FALSE, 0)
    ELSE IF ~validateOrderData(body).isValid
    THEN Response(slot, method, body, 400, FALSE, validateOrderData(body).errors,
                  "", FALSE, 0)
    ELSE NoResponse

\* lines 394-452: the handler runs up to await Promise.allSettled
HandlerStart(slot, method, ip, body) ==
    LET limited == isRateLimited(rateLimitStore, ip, now)
        resp == syncResponse(slot, method, body, limited)
    IN  /\ inflight[slot].pc = "idle"
        /\ IF method = "POST"
           THEN CheckRateLimit(ip)
           ELSE UNCHANGED <<rateLimitStore, accepted, lastCheck>>
        /\ IF resp.status /= 0
           THEN /\ lastResp' = resp
                /\ UNCHANGED inflight
           ELSE /\ inflight' = [inflight EXCEPT ![slot] =
                        [pc |-> "waiting", ip |-> ip, body |-> body,
                         notifications |-> startNotifications(body)]]
                /\ UNCHANGED lastResp
        /\ UNCHANGED <<now, resend, pageVars>>

\* resend.emails.send of notification i resolves (ok) or throws (caught)
NotificationSettles ==
    \E slot \in Slots, ok \in BOOLEAN :
        \E i \in DOMAIN inflight[slot].notifications :
            /\ inflight[slot].pc = "waiting"
            /\ inflight[slot].notifications[i] = "pending"
            /\ inflight' = [inflight EXCEPT ![slot].notifications[i] =
                                IF ok THEN "true" ELSE "false"]
            /\ UNCHANGED <<pageVars, rlVars, resend, lastResp, webVars>>

\* only the first promise of the notifications array is awaited
allSettled_first(notifications) == notifications[1] /= "pending"

\* every promise of the notifications array has settled
allSettled(notifications) ==
    \A i \in DOMAIN notifications : notifications[i] /= "pending"

(***************************************************************************)
(* Catalog and cart, products.js:53-141 and checkout.js:247-482            *)
(***************************************************************************)
\* the products collection of the store; "curd" was removed from it
StoreProducts == << [id |-> "milk", price |-> 30, inStock |-> TRUE],
                    [id |-> "ghee", price |-> 800, inStock |-> TRUE],
                    [id |-> "paneer", price |-> 90, inStock |-> FALSE] >>

\* api/products.js:50-77: the query .where('inStock', '==', true)
getProductsFromFirestore(collection) ==
    SelectSeq(collection, LAMBDA product : product.inStock)

\* the products /api/products returns
Catalog == getProductsFromFirestore(StoreProducts)

NotLoaded == [loaded |-> FALSE, list |-> <<>>]

\* CONFIG.DELIVERY_CHARGE, products.js:577
DELIVERY_CHARGE == 0
\* CONFIG.MIN_ORDER_AMOUNT, products.js:583
MIN_ORDER_AMOUNT == 50

\* the carts the page can find in localStorage when checkout begins
InitialCarts ==
    { <<>>,
      <<[productId |-> "milk", quantity |-> 2]>>,
      <<[productId |-> "milk", quantity |-> 1], [productId |-> "ghee", quantity |-> 2]>>,
      <<[productId |-> "curd", quantity |-> 1]>>,
      <<[productId |-> "milk", quantity |-> 1]>>,
      <<[productId |-> "milk", quantity |-> 2], [productId |-> "paneer", quantity |-> 1]>> }

\* products.find(p => p.id === productId) finds something
hasProduct(products, productId) ==
    \E i \in DOMAIN products : products[i].id = productId

\* products.js:138-141, for a product that exists
getProductById(products, productId) ==
    products[CHOOSE i \in DOMAIN products :
                /\ products[i].id = productId
                /\ \A j \in 1..(i - 1) : products[j].id /= productId]

\* getCartWithDetails with subtotal: product.price, the quantity forgotten
getCartWithDetails_unitPrice(cartRead, products) ==
    LET found == SelectSeq(cartRead, LAMBDA item : hasProduct(products, item.productId))
    IN  [i \in 1..Len(found) |->
            [productId |-> found[i].productId,
             quantity |-> found[i].quantity,
             product |-> getProductById(products, found[i].productId),
             subtotal |-> getProductById(products, found[i].productId).price]]

\* checkout.js:411-428, on the cart it read and the cached products
getCartWithDetails(cartRead, products) ==
    LET found == SelectSeq(cartRead, LAMBDA item : hasProduct(products, item.productId))
    IN  [i \in 1..Len(found) |->
            [productId |-> found[i].productId,
             quantity |-> found[i].quantity,
             product |-> getProductById(products, found[i].productId),
             subtotal |-> getProductById(products, found[i].productId).price
                            * found[i].quantity]]

RECURSIVE sumSubtotals(_)
\* checkout.js:441: cartItems.reduce((sum, item) => sum + item.subtotal, 0)
sumSubtotals(cartItems) ==
    IF cartItems = <<>> THEN 0
    ELSE cartItems[1].subtotal + sumSubtotals(Tail(cartItems))

\* checkout.js:453-461
calculateDeliveryCharge(subtotal) ==
    IF subtotal >= MIN_ORDER_AMOUNT THEN DELIVERY_CHARGE ELSE DELIVERY_CHARGE

\* checkout.js:472-482
calculateTotal(cartRead, products) ==
    LET subtotal == sumSubtotals(getCartWithDetails(cartRead, products))
        delivery == calculateDeliveryCharge(subtotal)
    IN  [subtotal |-> subtotal, delivery |-> delivery, total |-> subtotal + delivery]

\* checkout.js:800: `${item.product.nameEnglish} is out of stock`; the product
\* is named by its id
outOfStockMessage(item) == item.productId \o " is out of stock"

\* checkout.js:787-810: the errors array, on the stored cart and the products
\* fetchProducts returns
validateCartErrors(cartRead, products) ==
    IF Len(cartRead) = 0 THEN <<"Your cart is empty">>
    ELSE LET cartItems == getCartWithDetails(cartRead, products)
             outOfStockItems == SelectSeq(cartItems, LAMBDA item : ~item.product.inStock)
             totals == calculateTotal(cartRead, products)
         IN  [i \in 1..Len(outOfStockItems) |-> outOfStockMessage(outOfStockItems[i])]
             \o Rule(totals.subtotal < MIN_ORDER_AMOUNT, "Minimum order amount is 50")

\* checkout.js:786-816
validateCart(cartRead, products) ==
    [isValid |-> validateCartErrors(cartRead, products) = <<>>
                 /\ Len(cartRead) /= 0,
     errors |-> validateCartErrors(cartRead, products)]

(***************************************************************************)
(* Text helpers, utils.js validatePhone / validateEmail / sanitizeInput    *)
(***************************************************************************)
Digits == {"0", "1", "2", "3", "4", "5", "6", "7", "8", "9"}
Whitespace == {" ", "\t", "\n"}

RECURSIVE trimStart(_)
trimStart(text) ==
    IF text /= <<>> /\ text[1] \in Whitespace THEN trimStart(Tail(text)) ELSE text

RECURSIVE trimEnd(_)
trimEnd(text) ==
    IF text /= <<>> /\ text[Len(text)] \in Whitespace
    THEN trimEnd(SubSeq(text, 1, Len(text) - 1))
    ELSE text

\* String.prototype.trim
trim(text) == trimEnd(trimStart(text))

\* [6-9]\d{9}
mobileDigits(text) ==
    /\ Len(text) = 10
    /\ text[1] \in {"6", "7", "8", "9"}
    /\ \A i \in 2..10 : text[i] \in Digits

\* CONFIG.PHONE_REGEX.test(phone):  /^(\+91|91)?[6-9]\d{9}$/
validatePhone(phone) ==
    \/ mobileDigits(phone)
    \/ /\ Len(phone) = 13
       /\ SubSeq(phone, 1, 3) = <<"+", "9", "1">>
       /\ mobileDigits(SubSeq(phone, 4, 13))
    \/ /\ Len(phone) = 12
       /\ SubSeq(phone, 1, 2) = <<"9", "1">>
       /\ mobileDigits(SubSeq(phone, 3, 12))

\* CONFIG.EMAIL_REGEX.test(email):  /^[^\s@]+@[^\s@]+\.[^\s@]+$/
validateEmail(email) ==
    \E i \in DOMAIN email :
        /\ email[i] = "@"
        /\ i > 1
        /\ \A k \in DOMAIN email :
              /\ email[k] \notin Whitespace
              /\ (email[k] = "@" => k = i)
        /\ \E j \in DOMAIN email : email[j] = "." /\ j > i + 1 /\ j < Len(email)

\* the map of sanitizeInput
escapeChar(char) ==
    CASE char = "&" -> <<"&", "a", "m", "p", ";">>
      [] char = "<" -> <<"&", "l", "t", ";">>
      [] char = ">" -> <<"&", "g", "t", ";">>
      [] char = "\"" -> <<"&", "q", "u", "o", "t", ";">>
      [] char = "'" -> <<"&", "#", "x", "2", "7", ";">>
      [] char = "/" -> <<"&", "#", "x", "2", "F", ";">>
      [] OTHER -> <<char>>

RECURSIVE sanitizeInput(_)
\* input.replace(/[&<>"'/]/g, char => map[char])
sanitizeInput(input) ==
    IF input = <<>> THEN <<>>
    ELSE escapeChar(input[1]) \o sanitizeInput(Tail(input))

(***************************************************************************)
(* Checkout form, checkout.js:43-75                                        *)
(***************************************************************************)
T_BadPhone == <<"1", "2", "3", "4", "5", "6", "7", "8", "9", "0">>

FormOk == [name |-> T_Ram, phone |-> T_Phone, email |-> T_Email,
           address |-> T_Address, landmark |-> <<>>,
           deliverySlot |-> "Morning (7 AM - 10 AM)",
           specialInstructions |-> <<>>]

\* an address that carries markup
T_MarkupAddress == <<"<", "b", ">", "1", "2", " ", "M", "G", " ", "R", "d">>

\* the forms a user submits: complete, without email, with a bad phone
CheckoutForms ==
    { FormOk,
      [FormOk EXCEPT !.email = <<>>],
      [FormOk EXCEPT !.phone = T_BadPhone] }

\* forms that pass validateCheckoutForm with markup in a free-text field
MarkupForms ==
    { [FormOk EXCEPT !.address = T_MarkupAddress],
      [FormOk EXCEPT !.landmark = <<"a", "&", "b">>],
      [FormOk EXCEPT !.specialInstructions = <<"'", "x", "'">>] }

\* the users collection before checkout has written a profile field
NoProfiles == [uid \in {"u1"} |-> [phone |-> <<>>, address |-> <<>>]]

\* user is null: nobody is signed in
NoUser == [present |-> FALSE, uid |-> "", email |-> <<>>]

\* the user object the page passes: signed in with or without an email, or null
Users == { [present |-> TRUE, uid |-> "u1", email |-> T_Email],
           [present |-> TRUE, uid |-> "u1", email |-> <<>>],
           NoUser }

\* a processCheckout invocation may begin this many times on one page
MaxAttempts == 1

\* lines 44-69: the errors array
checkoutFormErrors(formData) ==
    Rule(Falsy(formData.name) \/ Len(trim(formData.name)) < 2,
         "Please enter your full name")
    \o Rule(~validatePhone(formData.phone),
            "Please enter a valid 10-digit mobile number")
    \o Rule(~Falsy(formData.email) /\ ~validateEmail(formData.email),
            "Please enter a valid email address")
    \o Rule(Falsy(formData.address) \/ Len(trim(formData.address)) < 10,
            "Please enter a complete delivery address")
    \o Rule(formData.deliverySlot = "", "Please select a delivery time slot")

\* lines 71-74
validateCheckoutForm(formData) ==
    [isValid |-> checkoutFormErrors(formData) = <<>>,
     errors |-> checkoutFormErrors(formData)]

(***************************************************************************)
(* processCheckout, checkout.js:129-201.  ck.pc is the await the           *)
(* invocation is suspended at: "details" (137), "totals" (143),            *)
(* "create" (180), "submit" (183, request not yet at the server),          *)
(* "posted" (183, request at the server), "response" (183, response        *)
(* received), "update" (187); "done" and "failed" are its two outcomes.    *)
(***************************************************************************)
NoOrder == [orderId |-> "", userId |-> "",
            customer |-> [name |-> <<>>, email |-> <<>>, phone |-> <<>>,
                          address |-> <<>>, landmark |-> <<>>],
            items |-> <<>>, deliverySlot |-> "", specialInstructions |-> <<>>,
            paymentMethod |-> "", subtotal |-> 0, deliveryCharge |-> 0,
            total |-> 0, status |-> ""]

IdleCheckout ==
    [pc |-> "idle", attempts |-> 0, formData |-> FormOk,
     user |-> [present |-> TRUE, uid |-> "u1", email |-> T_Email],
     cartAtStart |-> <<>>, cartRead |-> <<>>, cartItems |-> <<>>,
     orderData |-> NoOrder, written |-> FALSE,
     createCalls |-> 0, submitCalls |-> 0, updateCalls |-> 0,
     cleared |-> FALSE, status |-> 0, error |-> "", result |-> ""]

\* lines 149-176
buildOrderData(orderId, formData, user, cartItems, totals) ==
    [orderId |-> orderId,
     userId |-> user.uid,
     customer |-> [name |-> sanitizeInput(formData.name),
                   email |-> IF ~Falsy(formData.email)
                             THEN sanitizeInput(formData.email) ELSE user.email,
                   phone |-> sanitizeInput(formData.phone),
                   address |-> sanitizeInput(formData.address),
                   landmark |-> IF ~Falsy(formData.landmark)
                                THEN sanitizeInput(formData.landmark) ELSE <<>>],
     items |-> [i \in 1..Len(cartItems) |->
                   [productId |-> cartItems[i].productId,
                    quantity |-> cartItems[i].quantity,
                    price |-> cartItems[i].product.price,
                    subtotal |-> cartItems[i].subtotal]],
     deliverySlot |-> formData.deliverySlot,
     specialInstructions |-> IF ~Falsy(formData.specialInstructions)
                             THEN sanitizeInput(formData.specialInstructions)
                             ELSE <<>>,
     paymentMethod |-> "Cash on Delivery",
     subtotal |-> totals.subtotal,
     deliveryCharge |-> totals.delivery,
     total |-> totals.total,
     status |-> "pending"]

\* checkout.js:95 JSON.stringify(orderData) as the handler reads it from req.body
ToBody(orderData) ==
    [present |-> TRUE, orderId |-> orderData.orderId, userId |-> orderData.userId,
     customer |-> [present |-> TRUE, name |-> orderData.customer.name,
                   phone |-> orderData.customer.phone,
                   address |-> orderData.customer.address,
                   email |-> orderData.customer.email],
     items |-> [isArray |-> TRUE, length |-> Len(orderData.items)],
     total |-> [isNumber |-> TRUE, value |-> orderData.total]]

\* lines 132-134 with the check dropped
formBlocks_never(formData) == FALSE

\* lines 132-134: if (!validation.isValid) throw
formBlocks(formData) == ~validateCheckoutForm(formData).isValid

\* lines 138-140: if (cartItems.length === 0) throw
cartBlocks(cartItems) == Len(cartItems) = 0

\* an error thrown before the try block rejects processCheckout
rejectWith(c, message) == [c EXCEPT !.pc = "failed", !.error = message]

\* the catch block retries the whole try block
catchBlock_retry(c) == [c EXCEPT !.pc = "create", !.createCalls = @ + 1]

\* lines 197-200: catch (error) { throw new Error('Failed to process order...') }
catchBlock(c) ==
    [c EXCEPT !.pc = "failed", !.error = "Failed to process order. Please try again."]

\* a failed order write is ignored and the notification goes out
createFailed_ignored(c) == [c EXCEPT !.pc = "submit", !.submitCalls = @ + 1]

\* line 180 rejects: control goes to the catch block
createFailed(c) == catchBlock(c)

\* line 183: submitOrder(orderData) is called, its fetch is issued
callSubmitOrder(c) == [c EXCEPT !.pc = "submit", !.submitCalls = @ + 1]

\* processCheckout(formData, user) is called: lines 131-137 run up to the
\* first await, getCartWithDetails has read the cart (line 412)
StartWith(forms) ==
    \E formData \in forms, user \in Users :
        /\ ck.pc \in {"idle", "done", "failed"}
        /\ ck.attempts < MaxAttempts
        /\ LET c == [IdleCheckout EXCEPT !.attempts = ck.attempts + 1,
                                         !.formData = formData,
                                         !.user = user,
                                         !.cartAtStart = cart]
           IN  ck' = IF formBlocks(formData)
                     THEN rejectWith(c, "validation")
                     ELSE [c EXCEPT !.pc = "details", !.cartRead = cart]
        /\ UNCHANGED <<pageVars, rlVars, apiVars, orders, users, cart, cachedProducts>>

CheckoutStart == StartWith(CheckoutForms)

\* the same submit of a form whose free text carries markup
CheckoutStartMarkup == StartWith(MarkupForms)

\* lines 137-143: getCartWithDetails resolves (fetching the catalog when it is
\* not cached and the cart has items), the empty cart is rejected, and
\* calculateTotal starts by reading the cart again
CheckoutDetails ==
    /\ ck.pc = "details"
    /\ \E fetchOk \in BOOLEAN :
        LET needFetch == ck.cartRead /= <<>> /\ ~cachedProducts.loaded
            products == IF ck.cartRead = <<>> THEN <<>> ELSE Catalog
            cartItems == getCartWithDetails(ck.cartRead, products)
        IN  /\ (~needFetch => fetchOk)
            /\ IF ~fetchOk
               THEN /\ ck' = rejectWith(ck, "Failed to load products")
                    /\ UNCHANGED cachedProducts
               ELSE /\ cachedProducts' =
                          IF needFetch THEN [loaded |-> TRUE, list |-> Catalog]
                          ELSE cachedProducts
                    /\ ck' = IF cartBlocks(cartItems)
                             THEN rejectWith(ck, "Your cart is empty")
                             ELSE [ck EXCEPT !.pc = "totals",
                                             !.cartItems = cartItems,
                                             !.cartRead = cart]
    /\ UNCHANGED <<pageVars, rlVars, apiVars, orders, users, cart>>

\* lines 143-180: calculateTotal resolves, the order identifier is drawn, the
\* order record is built (user.uid of a null user throws a TypeError, outside
\* the try block) and DatabaseService.createOrder is called
CheckoutTotals ==
    /\ ck.pc = "totals"
    /\ cachedProducts.loaded
    /\ \E orderId \in OrderIds :
        LET totals == calculateTotal(ck.cartRead, cachedProducts.list)
        IN  ck' = IF ~ck.user.present
                  THEN rejectWith(ck, "TypeError: Cannot read properties of null")
                  ELSE [ck EXCEPT !.pc = "create",
                             !.orderData = buildOrderData(orderId, ck.formData, ck.user,
                                                          ck.cartItems, totals),
                             !.createCalls = @ + 1]
    /\ UNCHANGED <<pageVars, rlVars, apiVars, orders, users, cart, cachedProducts>>

\* firebase-config.js:470-484: addDoc resolves, or rejects and createOrder throws
CreateOrderSettles ==
    /\ ck.pc = "create"
    /\ \E ok \in BOOLEAN :
        IF ok
        THEN /\ orders' = Append(orders, ck.orderData)
             /\ ck' = callSubmitOrder([ck EXCEPT !.written = TRUE])
        ELSE /\ ck' = createFailed(ck)
             /\ UNCHANGED orders
    /\ UNCHANGED <<pageVars, rlVars, apiVars, users, cart, cachedProducts>>

\* checkout.js:98: response.ok
responseOk(status) == status >= 200 /\ status <= 299

\* the POST of submitOrder (checkout.js:90-96) reaches the handler
SubmitArrives ==
    LET body == ToBody(ck.orderData)
        resp == syncResponse("checkout", "POST", body,
                             isRateLimited(rateLimitStore, BrowserIp, now))
    IN  /\ ck.pc = "submit"
        /\ HandlerStart("checkout", "POST", BrowserIp, body)
        /\ ck' = IF resp.status /= 0
                 THEN [ck EXCEPT !.pc = "response", !.status = resp.status]
                 ELSE [ck EXCEPT !.pc = "posted"]
        /\ UNCHANGED <<orders, users, cart, cachedProducts>>

\* the fetch of submitOrder rejects (network failure): checkout.js:104-107
\* rethrows into the catch block of processCheckout
SubmitNetworkFails ==
    /\ ck.pc = "submit"
    /\ ck' = catchBlock(ck)
    /\ UNCHANGED <<pageVars, rlVars, apiVars, orders, users, cart, cachedProducts>>

\* any other HTTP client sends a request to /api/submit-order
DirectRequest ==
    \E method \in Methods, ip \in IPs, body \in PostBodies :
        /\ HandlerStart("direct", method, ip, body)
        /\ UNCHANGED webVars

\* another client on the network of the browser posts an order payload that is
\* well formed, whether or not the order was ever written to the store
ForgedPost ==
    \E body \in ValidBodies :
        /\ HandlerStart("direct", "POST", BrowserIp, body)
        /\ UNCHANGED webVars

\* submit-order.js:452-474: Promise.allSettled has resolved, the handler logs
\* the results and responds
HandlerFinish ==
    \E slot \in Slots :
        /\ inflight[slot].pc = "waiting"
        /\ allSettled(inflight[slot].notifications)
        /\ lastResp' = finalResponse(slot, inflight[slot])
        /\ inflight' = [inflight EXCEPT ![slot] = IdleRequest]
        /\ ck' = IF slot = "checkout"
                 THEN [ck EXCEPT !.pc = "response",
                                 !.status = finalResponse(slot, inflight[slot]).status]
                 ELSE ck
        /\ UNCHANGED <<pageVars, rlVars, resend, orders, users, cart, cachedProducts>>

\* checkout.js:98-103 and 183-191: submitOrder throws on a response that is
\* not ok, else processCheckout goes on to DatabaseService.updateUser
CheckoutResponse ==
    /\ ck.pc = "response"
    /\ IF ~responseOk(ck.status)
       THEN /\ ck' = catchBlock(ck)
            /\ UNCHANGED cart
       ELSE IF ~Falsy(ck.formData.phone)
       THEN /\ ck' = [ck EXCEPT !.pc = "update", !.updateCalls = @ + 1]
            /\ UNCHANGED cart
       ELSE /\ ck' = [ck EXCEPT !.pc = "done", !.cleared = TRUE,
                                !.result = ck.orderData.orderId]
            /\ cart' = <<>>
    /\ UNCHANGED <<pageVars, rlVars, apiVars, orders, users, cachedProducts>>

\* checkout.js:187-196: updateUser resolves, the cart is cleared and the order
\* identifier returned; or updateUser throws into the catch block
UpdateUserSettles ==
    /\ ck.pc = "update"
    /\ \E ok \in BOOLEAN :
        IF ok
        THEN /\ users' = [users EXCEPT ![ck.user.uid] =
                                [phone |-> ck.formData.phone,
                                 address |-> ck.formData.address]]
             /\ ck' = [ck EXCEPT !.pc = "done", !.cleared = TRUE,
                                 !.result = ck.orderData.orderId]
             /\ cart' = <<>>
        ELSE /\ ck' = catchBlock(ck)
             /\ UNCHANGED <<cart, users>>
    /\ UNCHANGED <<pageVars, rlVars, apiVars, orders, cachedProducts>>

(***************************************************************************)
(* Specifications                                                          *)
(***************************************************************************)
InitApi ==
    /\ resend \in BOOLEAN
    /\ inflight = [slot \in Slots |-> IdleRequest]
    /\ lastResp = NoResponse

InitWeb ==
    /\ orders = <<>>
    /\ users = NoProfiles
    /\ cart \in InitialCarts
    /\ cachedProducts = NotLoaded
    /\ ck = IdleCheckout

\* no addToCart in flight, nothing called yet
NoCall == [fn |-> "none", n |-> 0]

\* no validation function is about to be called
NoArgs == [fn |-> "none"]

InitPage ==
    /\ adds = <<>>
    /\ lastCall = NoCall
    /\ args = NoArgs
    /\ fetches = <<>>

\* the rate limiter alone, with the clock
InitRL ==
    /\ now = 0
    /\ rateLimitStore = <<>>
    /\ accepted = [ip \in IPs |-> <<>>]
    /\ lastCheck = NoCheck
    /\ resend = TRUE
    /\ inflight = [slot \in Slots |-> IdleRequest]
    /\ lastResp = NoResponse
    /\ orders = <<>>
    /\ users = NoProfiles
    /\ cart = <<>>
    /\ cachedProducts = NotLoaded
    /\ ck = IdleCheckout
    /\ InitPage

NextRL == RateLimitCall \/ Tick

SpecRL == InitRL /\ [][NextRL]_vars

\* the page and the serverless process
Init ==
    /\ now = 0
    /\ rateLimitStore = <<>>
    /\ accepted = [ip \in IPs |-> <<>>]
    /\ lastCheck = NoCheck
    /\ InitApi
    /\ InitWeb
    /\ InitPage

Next ==
    \/ CheckoutStart
    \/ CheckoutDetails
    \/ CheckoutTotals
    \/ CreateOrderSettles
    \/ SubmitArrives
    \/ SubmitNetworkFails
    \/ CheckoutResponse
    \/ UpdateUserSettles
    \/ ForgedPost
    \/ NotificationSettles
    \/ HandlerFinish

Spec == Init /\ [][Next]_vars

\* the serverless process alone, under requests of any HTTP client
InitApiOnly ==
    /\ now = 0
    /\ rateLimitStore = <<>>
    /\ accepted = [ip \in IPs |-> <<>>]
    /\ lastCheck = NoCheck
    /\ InitApi
    /\ orders = <<>>
    /\ users = NoProfiles
    /\ cart = <<>>
    /\ cachedProducts = NotLoaded
    /\ ck = IdleCheckout
    /\ InitPage

NextApi == DirectRequest \/ NotificationSettles \/ HandlerFinish

SpecApi == InitApiOnly /\ [][NextApi]_vars

(***************************************************************************)
(* Cart operations, checkout.js:247-393.  A stored item is                 *)
(* {productId, quantity}; its addedAt timestamp is left out.               *)
(***************************************************************************)
ProductIds == {"milk", "ghee", "paneer", "curd"}

\* the length of a quantity in JSON
digitsOf(n) ==
    IF n < 0 THEN (IF n > 0 - 10 THEN 2 ELSE IF n > 0 - 100 THEN 3 ELSE 4)
    ELSE IF n < 10 THEN 1 ELSE IF n < 100 THEN 2 ELSE 3

RECURSIVE jsonSize(_)
\* utils.js:300: the length of JSON.stringify(value) for a cart
jsonSize(value) ==
    IF value = <<>> THEN 2
    ELSE 30 + Len(value[1].productId) + digitsOf(value[1].quantity)
         + jsonSize(Tail(value))

\* utils.js:298-308: localStorage.setItem throws only when the quota is
\* exceeded, which a value no longer than the stored one cannot do
saveToStorage(stored, value, quotaExceeded) ==
    ~(quotaExceeded /\ jsonSize(value) > jsonSize(stored))

\* saveCart that returns true whatever saveToStorage returned
saveCart_ignoresFailure(stored, value, quotaExceeded) ==
    [result |-> TRUE,
     cart |-> IF saveToStorage(stored, value, quotaExceeded) THEN value ELSE stored,
     writeFailed |-> ~saveToStorage(stored, value, quotaExceeded)]

\* checkout.js:259-265 saveCart: the success flag, the cart then stored, and
\* whether setItem threw
saveCart(stored, value, quotaExceeded) ==
    [result |-> saveToStorage(stored, value, quotaExceeded),
     cart |-> IF saveToStorage(stored, value, quotaExceeded) THEN value ELSE stored,
     writeFailed |-> ~saveToStorage(stored, value, quotaExceeded)]

\* cart.find that never finds the product
findItem_none(cartRead, productId) == 0

\* cart.find(item => item.productId === productId): the index of the first
\* item of the product, 0 for undefined
findItem(cartRead, productId) ==
    IF \E i \in DOMAIN cartRead : cartRead[i].productId = productId
    THEN CHOOSE i \in DOMAIN cartRead :
            /\ cartRead[i].productId = productId
            /\ \A j \in 1..(i - 1) : cartRead[j].productId /= productId
    ELSE 0

\* checkout.js:280-318, after getProductById has resolved
addToCart(cartRead, products, productId, quantity, quotaExceeded) ==
    IF ~hasProduct(products, productId)
    THEN [result |-> FALSE, cart |-> cartRead, writeFailed |-> FALSE]
    ELSE IF ~getProductById(products, productId).inStock
    THEN [result |-> FALSE, cart |-> cartRead, writeFailed |-> FALSE]
    ELSE LET existingItem == findItem(cartRead, productId)
         IN  saveCart(cartRead,
                      IF existingItem /= 0
                      THEN [cartRead EXCEPT ![existingItem].quantity = @ + quantity]
                      ELSE Append(cartRead, [productId |-> productId,
                                             quantity |-> quantity]),
                      quotaExceeded)

\* removeFromCart that reports success whatever it found
removeFromCart_alwaysTrue(cartRead, productId, quotaExceeded) ==
    [result |-> TRUE,
     cart |-> SelectSeq(cartRead, LAMBDA item : item.productId /= productId),
     writeFailed |-> FALSE]

\* checkout.js:363-379
removeFromCart(cartRead, productId, quotaExceeded) ==
    LET filteredCart == SelectSeq(cartRead, LAMBDA item : item.productId /= productId)
    IN  IF Len(filteredCart) = Len(cartRead)
        THEN [result |-> FALSE, cart |-> cartRead, writeFailed |-> FALSE]
        ELSE saveCart(cartRead, filteredCart, quotaExceeded)

\* checkout.js:336-351
updateCartItem(cartRead, productId, newQuantity, quotaExceeded) ==
    IF newQuantity < 1
    THEN removeFromCart(cartRead, productId, quotaExceeded)
    ELSE LET item == findItem(cartRead, productId)
         IN  IF item = 0
             THEN [result |-> FALSE, cart |-> cartRead, writeFailed |-> FALSE]
             ELSE saveCart(cartRead, [cartRead EXCEPT ![item].quantity = newQuantity],
                           quotaExceeded)

\* checkout.js:389-393
clearCart(cartRead) == [result |-> TRUE, cart |-> <<>>, writeFailed |-> FALSE]

\* the value of one decimal digit
digitValue(char) ==
    CHOOSE d \in 0..9 : <<"0", "1", "2", "3", "4", "5", "6", "7", "8", "9">>[d + 1] = char

RECURSIVE digitsPrefix(_)
\* the longest prefix of decimal digits
digitsPrefix(text) ==
    IF text /= <<>> /\ text[1] \in Digits
    THEN <<text[1]>> \o digitsPrefix(Tail(text))
    ELSE <<>>

RECURSIVE decimalValue(_)
decimalValue(digits) ==
    IF digits = <<>> THEN 0
    ELSE decimalValue(SubSeq(digits, 1, Len(digits) - 1)) * 10
         + digitValue(digits[Len(digits)])

\* parseInt(text, 10): leading whitespace, an optional sign, then the digits
\* up to the first other character; NaN without a digit
parseInt(text) ==
    LET s == trimStart(text)
        signed == s /= <<>> /\ s[1] \in {"+", "-"}
        digits == digitsPrefix(IF signed THEN Tail(s) ELSE s)
    IN  IF digits = <<>> THEN [isNaN |-> TRUE, value |-> 0]
        ELSE [isNaN |-> FALSE,
              value |-> IF signed /\ s[1] = "-" THEN 0 - decimalValue(digits)
                        ELSE decimalValue(digits)]

\* the quantities callers pass to addToCart and updateCartItem
AddQuantities == {0 - 1, 0, 1, 99}
UpdateQuantities == {0 - 1, 0, 1, 99, 100}

\* what a user types into the quantity input
InputValues ==
    { <<"5">>, <<"9", "9">>, <<"1", "0", "0">>, <<"0">>, <<"-", "1">>,
      <<>>, <<"a">>, <<"7", "x">> }

CartFns == {"addToCart", "updateCartItem", "removeFromCart", "clearCart",
            "quantityInput"}

\* the call before this one, as the history keeps it: for an addToCart also
\* how many addToCart calls were suspended when it resumed
PrevOf(call) ==
    IF call.fn \in CartFns
    THEN [fn |-> call.fn, productId |-> call.productId, result |-> call.result,
          inFlight |-> IF call.fn = "addToCart" THEN call.inFlight ELSE 0]
    ELSE [fn |-> "none", productId |-> "", result |-> FALSE, inFlight |-> 0]

\* the history record of a cart call that returned r
CartCall(fn, via, productId, arg, r) ==
    [fn |-> fn, n |-> lastCall.n + 1, via |-> via, productId |-> productId,
     arg |-> arg, before |-> cart, after |-> r.cart, result |-> r.result,
     writeFailed |-> r.writeFailed, inFlight |-> Len(adds),
     prev |-> PrevOf(lastCall)]

\* another cart call may begin
MayCall == lastCall.n + Len(adds) < MaxCalls

cartFrame == <<rlVars, apiVars, orders, users, ck, args, fetches>>

\* line 294 reading the cart as it was when addToCart was called
getCart_atCall(stored, call) == call.cart

\* checkout.js:294: const cart = getCart(), after the await of line 281
getCart(stored, call) == stored

\* addToCart(productId, quantity) is called and suspends at getProductById
\* (line 281)
AddToCartCall ==
    \E productId \in ProductIds, quantity \in AddQuantities :
        /\ MayCall
        /\ Len(adds) < MaxInFlight
        /\ adds' = Append(adds, [productId |-> productId, quantity |-> quantity,
                                 cart |-> cart])
        /\ UNCHANGED <<cartFrame, cart, cachedProducts, lastCall>>

\* getProductById resolves, or fetchProducts throws into the catch block
\* (line 319); lines 282-318 then run without a further await
AddToCartResume ==
    \E i \in DOMAIN adds, fetchOk \in BOOLEAN, quotaExceeded \in BOOLEAN :
        LET call == adds[i]
            r == IF fetchOk
                 THEN addToCart(getCart(cart, call), Catalog, call.productId,
                                call.quantity, quotaExceeded)
                 ELSE [result |-> FALSE, cart |-> cart, writeFailed |-> FALSE]
        IN  /\ (cachedProducts.loaded => fetchOk)
            /\ cachedProducts' = IF fetchOk THEN [loaded |-> TRUE, list |-> Catalog]
                                 ELSE cachedProducts
            /\ cart' = r.cart
            /\ adds' = SubSeq(adds, 1, i - 1) \o SubSeq(adds, i + 1, Len(adds))
            /\ lastCall' = CartCall("addToCart", "call", call.productId,
                                    call.quantity, r)
            /\ UNCHANGED cartFrame

UpdateCartItemCall ==
    \E productId \in ProductIds, newQuantity \in UpdateQuantities,
       quotaExceeded \in BOOLEAN :
        LET r == updateCartItem(cart, productId, newQuantity, quotaExceeded)
        IN  /\ MayCall
            /\ cart' = r.cart
            /\ lastCall' = CartCall("updateCartItem", "call", productId, newQuantity, r)
            /\ UNCHANGED <<cartFrame, adds, cachedProducts>>

RemoveFromCartCall ==
    \E productId \in ProductIds, quotaExceeded \in BOOLEAN :
        LET r == removeFromCart(cart, productId, quotaExceeded)
        IN  /\ MayCall
            /\ cart' = r.cart
            /\ lastCall' = CartCall("removeFromCart", "call", productId, 0, r)
            /\ UNCHANGED <<cartFrame, adds, cachedProducts>>

ClearCartCall ==
    /\ MayCall
    /\ cart' = clearCart(cart).cart
    /\ lastCall' = CartCall("clearCart", "call", "", 0, clearCart(cart))
    /\ UNCHANGED <<cartFrame, adds, cachedProducts>>

\* checkout.js:710-717: a click on the decrease button of a cart item
ClickDecrease ==
    \E productId \in ProductIds, quotaExceeded \in BOOLEAN :
        LET item == findItem(cart, productId)
            r == updateCartItem(cart, productId, cart[item].quantity - 1, quotaExceeded)
        IN  /\ MayCall
            /\ item /= 0
            /\ cart' = r.cart
            /\ lastCall' = CartCall("updateCartItem", "btn-decrease", productId,
                                    cart[item].quantity - 1, r)
            /\ UNCHANGED <<cartFrame, adds, cachedProducts>>

\* checkout.js:720-727: a click on the increase button of a cart item
ClickIncrease ==
    \E productId \in ProductIds, quotaExceeded \in BOOLEAN :
        LET item == findItem(cart, productId)
            r == updateCartItem(cart, productId, cart[item].quantity + 1, quotaExceeded)
        IN  /\ MayCall
            /\ item /= 0
            /\ cart' = r.cart
            /\ lastCall' = CartCall("updateCartItem", "btn-increase", productId,
                                    cart[item].quantity + 1, r)
            /\ UNCHANGED <<cartFrame, adds, cachedProducts>>

\* checkout.js:730-733: a click on the remove button of a cart item
ClickRemove ==
    \E productId \in ProductIds, quotaExceeded \in BOOLEAN :
        LET r == removeFromCart(cart, productId, quotaExceeded)
        IN  /\ MayCall
            /\ findItem(cart, productId) /= 0
            /\ cart' = r.cart
            /\ lastCall' = CartCall("removeFromCart", "btn-remove", productId, 0, r)
            /\ UNCHANGED <<cartFrame, adds, cachedProducts>>

\* checkout.js:737-753: the quantity input of a cart item changes
ChangeQuantity ==
    \E productId \in ProductIds, value \in InputValues, quotaExceeded \in BOOLEAN :
        LET newQuantity == parseInt(value)
            accepts == ~newQuantity.isNaN /\ newQuantity.value > 0
                       /\ newQuantity.value <= 99
            r == updateCartItem(cart, productId, newQuantity.value, quotaExceeded)
        IN  /\ MayCall
            /\ findItem(cart, productId) /= 0
            /\ IF accepts
               THEN /\ cart' = r.cart
                    /\ lastCall' = CartCall("updateCartItem", "quantity-input",
                                            productId, newQuantity.value, r)
               ELSE /\ cart' = cart
                    /\ lastCall' = CartCall("quantityInput", "quantity-input",
                                            productId, 0,
                                            [result |-> FALSE, cart |-> cart,
                                             writeFailed |-> FALSE])
            /\ UNCHANGED <<cartFrame, adds, cachedProducts>>

\* the cart of one page: the cart functions and the cart buttons
InitCart ==
    /\ now = 0
    /\ rateLimitStore = <<>>
    /\ accepted = [ip \in IPs |-> <<>>]
    /\ lastCheck = NoCheck
    /\ resend = TRUE
    /\ inflight = [slot \in Slots |-> IdleRequest]
    /\ lastResp = NoResponse
    /\ InitWeb
    /\ InitPage

NextCart ==
    \/ AddToCartCall
    \/ AddToCartResume
    \/ UpdateCartItemCall
    \/ RemoveFromCartCall
    \/ ClearCartCall
    \/ ClickDecrease
    \/ ClickIncrease
    \/ ClickRemove
    \/ ChangeQuantity

SpecCart == InitCart /\ [][NextCart]_vars

(***************************************************************************)
(* The validation and total functions applied to given arguments.          *)
(***************************************************************************)
\* the products collection at other times: ghee sold out and paneer back;
\* nothing on sale
Stores ==
    { StoreProducts,
      << [id |-> "milk", price |-> 30, inStock |-> TRUE],
         [id |-> "ghee", price |-> 800, inStock |-> FALSE],
         [id |-> "paneer", price |-> 90, inStock |-> TRUE] >>,
      << >> }

\* carts of at most MaxCartLen items, one per product
Carts ==
    LET items == [productId : ProductIds, quantity : 1..MaxQty]
        lists == UNION {[1..n -> items] : n \in 0..MaxCartLen}
    IN  {c \in lists :
            \A i, j \in DOMAIN c : c[i].productId = c[j].productId => i = j}

Customers ==
    {NoCustomer} \cup
    [present : {TRUE}, name : {<<>>, T_Ram}, phone : {<<>>, T_Phone},
     address : {<<>>, T_Address}, email : {<<>>, T_Email}]

\* the values JSON gives req.body: null, or an object whose fields are set,
\* missing, or of another type
OrderPayloads ==
    {NoBody} \cup
    [present : {TRUE}, orderId : {"", "ORD-20261102-001"}, userId : {"", "u1"},
     customer : Customers,
     items : {[isArray |-> FALSE, length |-> 0], [isArray |-> TRUE, length |-> 0],
              [isArray |-> TRUE, length |-> 1]},
     total : {[isNumber |-> FALSE, value |-> 0], [isNumber |-> TRUE, value |-> 0],
              [isNumber |-> TRUE, value |-> 0 - 5], [isNumber |-> TRUE, value |-> 60]}]

\* CONFIG.DELIVERY_SLOTS, products.js:589-593
DELIVERY_SLOTS ==
    {"Morning (7 AM - 10 AM)", "Afternoon (12 PM - 3 PM)", "Evening (5 PM - 8 PM)"}

\* the forms validateCheckoutForm can be given
Forms ==
    [name : {<<>>, <<"R">>, <<" ", "R", " ">>, <<"R", "a">>, T_Ram},
     phone : {<<>>, T_Phone, T_BadPhone, <<"+", "9", "1">> \o T_Phone,
              <<"9", "1">> \o T_Phone, <<"0">> \o T_Phone,
              SubSeq(T_Phone, 1, 9)},
     email : {<<>>, T_Email, <<"a", "@", "b">>, <<"a", " ", "@", "b", ".", "c">>},
     address : {<<>>, <<"1", "2", " ", "M", "G">>, T_Address,
                <<"1", "2", " ", "M", "G", " ", " ", " ", " ", " ">>},
     landmark : {<<>>},
     deliverySlot : DELIVERY_SLOTS \cup {"", "Midnight"},
     specialInstructions : {<<>>}]

\* validateOrderData(orderData) as a call: orderData.orderId of null throws
callValidateOrderData(orderData) ==
    IF ~orderData.present
    THEN [threw |-> TRUE, isValid |-> FALSE, errors |-> <<>>]
    ELSE [threw |-> FALSE, isValid |-> validateOrderData(orderData).isValid,
          errors |-> validateOrderData(orderData).errors]

fnFrame == <<rlVars, apiVars, webVars, adds, args, fetches>>

CalculateTotalCall ==
    /\ args.fn = "cart"
    /\ lastCall' = [fn |-> "calculateTotal", n |-> 1, cart |-> cart,
                    products |-> cachedProducts.list,
                    result |-> calculateTotal(cart, cachedProducts.list)]
    /\ UNCHANGED fnFrame

ValidateCartCall ==
    /\ args.fn = "cart"
    /\ lastCall' = [fn |-> "validateCart", n |-> 1, cart |-> cart,
                    store |-> args.store,
                    result |-> validateCart(cart, cachedProducts.list)]
    /\ UNCHANGED fnFrame

ValidateOrderDataCall ==
    /\ args.fn = "validateOrderData"
    /\ lastCall' = [fn |-> "validateOrderData", n |-> 1, orderData |-> args.orderData,
                    result |-> callValidateOrderData(args.orderData)]
    /\ UNCHANGED fnFrame

ValidateCheckoutFormCall ==
    /\ args.fn = "validateCheckoutForm"
    /\ lastCall' = [fn |-> "validateCheckoutForm", n |-> 1, formData |-> args.formData,
                    result |-> validateCheckoutForm(args.formData)]
    /\ UNCHANGED fnFrame

\* the local dates on which generateOrderId is called
Dates == { [year |-> 2026, month |-> 11, day |-> 2],
           [year |-> 2026, month |-> 2, day |-> 12] }

\* values of Math.floor(Math.random() * 1000)
Randoms == {0, 7, 42, 999}

RECURSIVE padStart(_, _)
\* String.prototype.padStart(targetLength, '0')
padStart(str, targetLength) ==
    IF Len(str) >= targetLength THEN str ELSE padStart("0" \o str, targetLength)

\* utils.js:482-490
generateOrderId(date, random) ==
    "ORD-" \o ToString(date.year) \o padStart(ToString(date.month), 2)
           \o padStart(ToString(date.day), 2)
           \o "-" \o padStart(ToString(random), 3)

\* history: the identifiers the calls before this one returned
IssuedBefore(call) ==
    IF call.fn = "generateOrderId" THEN call.issued \cup {call.result} ELSE {}

\* checkout.js:146: a checkout attempt draws its order identifier
GenerateOrderIdCall ==
    \E date \in Dates, random \in Randoms :
        /\ args.fn = "generateOrderId"
        /\ lastCall.n < MaxCalls
        /\ lastCall' = [fn |-> "generateOrderId", n |-> lastCall.n + 1,
                        date |-> date, random |-> random,
                        result |-> generateOrderId(date, random),
                        issued |-> IssuedBefore(lastCall)]
        /\ UNCHANGED fnFrame

\* a cart and a loaded catalog, or the argument of a validation function
InitFn ==
    /\ now = 0
    /\ rateLimitStore = <<>>
    /\ accepted = [ip \in IPs |-> <<>>]
    /\ lastCheck = NoCheck
    /\ resend = TRUE
    /\ inflight = [slot \in Slots |-> IdleRequest]
    /\ lastResp = NoResponse
    /\ orders = <<>>
    /\ users = NoProfiles
    /\ ck = IdleCheckout
    /\ adds = <<>>
    /\ fetches = <<>>
    /\ lastCall = NoCall
    /\ \/ \E store \in Stores :
            /\ args = [fn |-> "cart", store |-> store]
            /\ cart \in Carts
            /\ cachedProducts = [loaded |-> TRUE,
                                 list |-> getProductsFromFirestore(store)]
       \/ /\ args \in [fn : {"validateOrderData"}, orderData : OrderPayloads]
          /\ cart = <<>>
          /\ cachedProducts = NotLoaded
       \/ /\ args \in [fn : {"validateCheckoutForm"}, formData : Forms]
          /\ cart = <<>>
          /\ cachedProducts = NotLoaded
       \/ /\ args = [fn |-> "generateOrderId"]
          /\ cart = <<>>
          /\ cachedProducts = NotLoaded

NextFn ==
    \/ CalculateTotalCall
    \/ ValidateCartCall
    \/ ValidateOrderDataCall
    \/ ValidateCheckoutFormCall
    \/ GenerateOrderIdCall

SpecFn == InitFn /\ [][NextFn]_vars

\* the checkout of one page while the synchronous cart functions run as well:
\* in a second tab on the same localStorage, or on the page itself while
\* processCheckout is suspended at an await
NextTabs ==
    \/ CheckoutStart
    \/ CheckoutDetails
    \/ CheckoutTotals
    \/ CreateOrderSettles
    \/ SubmitArrives
    \/ SubmitNetworkFails
    \/ CheckoutResponse
    \/ UpdateUserSettles
    \/ NotificationSettles
    \/ HandlerFinish
    \/ UpdateCartItemCall
    \/ RemoveFromCartCall
    \/ ClearCartCall

SpecTabs == InitCart /\ [][NextTabs]_vars

(***************************************************************************)
(* The catalog cache of one page, products.js:26, 53-84                    *)
(***************************************************************************)
\* how many times the page calls fetchProducts
MaxFetches == 3

fetchFrame == <<rlVars, apiVars, orders, users, cart, ck, adds, args>>

\* the record of a fetchProducts call in the history
FetchCall(outcome, result) ==
    [fn |-> "fetchProducts", n |-> lastCall.n + 1, outcome |-> outcome,
     result |-> result, requests |-> Len(fetches)]

\* products.js:53-59: fetchProducts() is called: the cached list is returned
\* when there is one, or else fetch('/api/products') is issued and the call
\* is suspended at the await of line 61
FetchProductsCall ==
    /\ lastCall.n + Len(SelectSeq(fetches, LAMBDA f : f.state = "pending"))
          < MaxFetches
    /\ IF cachedProducts.loaded
       THEN /\ lastCall' = FetchCall("cached", cachedProducts.list)
            /\ UNCHANGED fetches
       ELSE /\ fetches' = Append(fetches, [state |-> "pending"])
            /\ UNCHANGED lastCall
    /\ UNCHANGED <<cachedProducts, fetchFrame>>

\* products.js:61-78: a request is answered with the products in stock at
\* that time; line 74 caches them and the call returns them
FetchSucceeds ==
    \E i \in DOMAIN fetches, store \in Stores :
        LET products == getProductsFromFirestore(store)
        IN  /\ fetches[i].state = "pending"
            /\ cachedProducts' = [loaded |-> TRUE, list |-> products]
            /\ fetches' = [fetches EXCEPT ![i] = [state |-> "ok"]]
            /\ lastCall' = FetchCall("fetched", products)
            /\ UNCHANGED fetchFrame

\* products.js:63-70, 79-83: the request fails, or is answered with an error
\* status or with success false: the call throws and the cache is not written
FetchFails ==
    \E i \in DOMAIN fetches :
        /\ fetches[i].state = "pending"
        /\ fetches' = [fetches EXCEPT ![i] = [state |-> "failed"]]
        /\ lastCall' = FetchCall("threw", <<>>)
        /\ UNCHANGED <<cachedProducts, fetchFrame>>

NextFetch == FetchProductsCall \/ FetchSucceeds \/ FetchFails

SpecFetch == InitCart /\ [][NextFetch]_vars

\* the checkout of one page when the form carries markup
NextMarkup ==
    \/ CheckoutStartMarkup
    \/ CheckoutDetails
    \/ CheckoutTotals
    \/ CreateOrderSettles
    \/ SubmitArrives
    \/ SubmitNetworkFails
    \/ CheckoutResponse
    \/ UpdateUserSettles
    \/ NotificationSettles
    \/ HandlerFinish

SpecMarkup == Init /\ [][NextMarkup]_vars

(***************************************************************************)
(* C1: for every identifier, at most 5 requests are accepted within any    *)
(* rolling 60-minute window: any 6 accepted requests of one identifier     *)
(* span at least windowMs.                                                 *)
(***************************************************************************)
C1_AtMostFivePerWindow ==
    \A ip \in IPs :
        \A i \in DOMAIN accepted[ip] :
            Cardinality({j \in DOMAIN accepted[ip] :
                            /\ accepted[ip][j] >= accepted[ip][i]
                            /\ accepted[ip][j] - accepted[ip][i] < windowMs})
                <= maxRequests

\* a 6th request inside the window was rejected after 5 were accepted
C1_Witness ==
    /\ lastCheck.limited
    /\ lastCheck.recentAccepted = maxRequests
    /\ Len(accepted[lastCheck.ip]) >= maxRequests

(***************************************************************************)
(* C2: a check is accepted whenever fewer than 5 accepted requests of the  *)
(* identifier occurred less than 60 minutes before it.                     *)
(***************************************************************************)
C2_AcceptedWhenUnderLimit ==
    (lastCheck.ip /= "none" /\ lastCheck.recentAccepted < maxRequests)
        => ~lastCheck.limited

\* the first request after the window has fully elapsed, following a rejection
C2_Witness ==
    /\ lastCheck.ip /= "none"
    /\ ~lastCheck.limited
    /\ lastCheck.recentAccepted = 0
    /\ Len(accepted[lastCheck.ip]) > maxRequests

(***************************************************************************)
(* C3: every POST that passes the rate limit and the payload validation is *)
(* answered 200 with success and the submitted order identifier, whatever  *)
(* the notification sends do and whether or not a customer email is        *)
(* present.                                                                *)
(***************************************************************************)
PassesValidation(body) ==
    IF body.present THEN validateOrderData(body).isValid ELSE FALSE

C3_ValidPostAnswered200 ==
    (/\ lastResp.method = "POST"
     /\ ~lastResp.limited
     /\ PassesValidation(lastResp.body))
        => /\ lastResp.status = 200
           /\ lastResp.success
           /\ lastResp.orderId = lastResp.body.orderId

(***************************************************************************)
(* C4: the endpoint answers an order POST with a 2xx status only when that *)
(* order has been persisted in the store.                                  *)
(***************************************************************************)
Persisted(orderId) == \E i \in DOMAIN orders : orders[i].orderId = orderId

C4_2xxOnlyWhenPersisted ==
    (lastResp.method = "POST" /\ responseOk(lastResp.status))
        => Persisted(lastResp.orderId)

(***************************************************************************)
(* C5: in every checkout attempt the notification submission is never      *)
(* attempted and the cart never cleared unless the order write succeeded   *)
(* first; when the order write fails the attempt fails, no notification is *)
(* attempted and the cart keeps its contents.                              *)
(***************************************************************************)
WriteFailed == ck.createCalls > 0 /\ ~ck.written /\ ck.pc /= "create"

C5_SideEffectsOrdered ==
    /\ (ck.submitCalls > 0 \/ ck.cleared \/ inflight["checkout"].pc /= "idle")
          => ck.written
    /\ WriteFailed
          => /\ ck.pc = "failed"
             /\ ck.submitCalls = 0
             /\ ~ck.cleared
             /\ cart = ck.cartAtStart

\* an attempt whose order write failed, with items in the cart
C5_Witness ==
    /\ WriteFailed
    /\ ck.pc = "failed"
    /\ cart /= <<>>

(***************************************************************************)
(* C6: once the order write of an attempt has succeeded, the attempt ends  *)
(* in success: the cart is cleared and the generated order identifier is   *)
(* returned, whatever the outcome of the notification submission.          *)
(***************************************************************************)
C6_WrittenEndsInSuccess ==
    (ck.written /\ ck.pc \in {"done", "failed"})
        => /\ ck.pc = "done"
           /\ ck.cleared
           /\ ck.result = ck.orderData.orderId

(***************************************************************************)
(* C7: a single checkout attempt calls order creation at most once, even   *)
(* if the notification submission throws; the store never holds more       *)
(* orders than there were attempts.                                        *)
(***************************************************************************)
C7_CreateAtMostOnce ==
    /\ ck.createCalls <= 1
    /\ Len(orders) <= ck.attempts

\* the notification submission threw after the order was created
C7_Witness ==
    /\ ck.pc = "failed"
    /\ ck.written
    /\ ck.submitCalls = 1
    /\ ck.createCalls = 1

(***************************************************************************)
(* C8: when the customer email is absent exactly one notification call     *)
(* (the owner notification) is made for the order; the customer            *)
(* confirmation is attempted only when a customer email is present.        *)
(***************************************************************************)
CallsFor(body) == IF Falsy(body.customer.email) THEN 1 ELSE 2

C8_OneCallWithoutEmail ==
    /\ \A slot \in Slots :
          inflight[slot].pc = "waiting"
             => Len(inflight[slot].notifications) = CallsFor(inflight[slot].body)
    /\ (lastResp.method = "POST" /\ ~lastResp.limited
            /\ PassesValidation(lastResp.body))
          => lastResp.calls = CallsFor(lastResp.body)

\* an order without customer email was handled with one notification call
C8_Witness ==
    /\ lastResp.method = "POST"
    /\ PassesValidation(lastResp.body)
    /\ Falsy(lastResp.body.customer.email)
    /\ lastResp.calls = 1

(***************************************************************************)
(* C9: processCheckout called with a form that fails validation or with an *)
(* empty cart reports the error before any side effect: no order write, no *)
(* notification submission, no user-profile update, cart unchanged.        *)
(***************************************************************************)
NoSideEffect ==
    /\ ck.createCalls = 0
    /\ ~ck.written
    /\ ck.submitCalls = 0
    /\ ck.updateCalls = 0
    /\ ~ck.cleared
    /\ inflight["checkout"].pc = "idle"
    /\ cart = ck.cartAtStart

C9_ErrorBeforeSideEffects ==
    /\ (ck.attempts > 0 /\ checkoutFormErrors(ck.formData) /= <<>>)
          => (ck.pc = "failed" /\ NoSideEffect)
    /\ (ck.attempts > 0 /\ ck.cartAtStart = <<>>)
          => (ck.pc \in {"details", "failed"} /\ NoSideEffect)

\* an attempt with a bad form and items in the cart was rejected
C9_Witness ==
    /\ ck.pc = "failed"
    /\ checkoutFormErrors(ck.formData) /= <<>>
    /\ ck.cartAtStart /= <<>>

(***************************************************************************)
(* C10: every POST that is rate-limited or whose payload violates a        *)
(* validation rule is rejected with a structured error response (429 for   *)
(* rate limiting, 400 carrying the list of violated rules) and triggers no *)
(* notification send.                                                      *)
(***************************************************************************)
C10_RejectedWithErrors ==
    (lastResp.method = "POST"
        /\ (lastResp.limited \/ ~PassesValidation(lastResp.body)))
        => /\ ~lastResp.success
           /\ lastResp.calls = 0
           /\ IF lastResp.limited
              THEN lastResp.status = 429
              ELSE lastResp.status = 400 /\ lastResp.errors /= <<>>

(***************************************************************************)
(* C11: a checkout attempt re-runs the cart validation against the current *)
(* catalog: when the cart holds an item that is out of stock or removed,   *)
(* or its subtotal is below the minimum order amount, the attempt fails    *)
(* before any order is persisted.                                          *)
(***************************************************************************)
InStockInStore(productId) ==
    \E i \in DOMAIN StoreProducts :
        StoreProducts[i].id = productId /\ StoreProducts[i].inStock

CartProblem(c) ==
    \/ \E i \in DOMAIN c : ~InStockInStore(c[i].productId)
    \/ calculateTotal(c, Catalog).subtotal < MIN_ORDER_AMOUNT

C11_InvalidCartNotPersisted ==
    (ck.attempts > 0 /\ CartProblem(ck.cartAtStart))
        => (~ck.written /\ ck.createCalls = 0)

(***************************************************************************)
(* C12: a checkout attempt made without an authenticated requester is      *)
(* rejected with an authentication error and performs no order write, no   *)
(* notification submission and no cart change.                             *)
(***************************************************************************)
AuthenticationErrors == {"User not authenticated"}

C12_UnauthenticatedRejected ==
    (ck.attempts > 0 /\ ~ck.user.present)
        => /\ NoSideEffect
           /\ ck.pc = "failed" => ck.error \in AuthenticationErrors

\* the part of C12 the code does keep: a null user causes no side effect
C12_NullUserNoSideEffect ==
    (ck.attempts > 0 /\ ~ck.user.present) => NoSideEffect

(***************************************************************************)
(* C14: after any sequence of addToCart, updateCartItem, removeFromCart    *)
(* and clearCart operations the stored cart holds at most one item per     *)
(* product identifier.                                                     *)
(***************************************************************************)
C14_OneItemPerProduct ==
    \A i, j \in DOMAIN cart : cart[i].productId = cart[j].productId => i = j

\* addToCart succeeded for a product the cart already held
C14_Witness ==
    /\ lastCall.fn = "addToCart"
    /\ lastCall.result
    /\ \E i \in DOMAIN lastCall.before :
          lastCall.before[i].productId = lastCall.productId
    /\ Len(lastCall.after) = Len(lastCall.before)
    /\ lastCall.after /= lastCall.before

(***************************************************************************)
(* C15: after any sequence of cart operations (addToCart and               *)
(* updateCartItem with any quantity, the increase and decrease buttons,    *)
(* the quantity input) no item of the cart has a quantity <= 0 or > 99: a  *)
(* successful update to a value <= 0 removes the item, and a larger value  *)
(* is stored clamped to 99.                                                *)
(***************************************************************************)
QuantityOf(c, productId) ==
    c[CHOOSE i \in DOMAIN c : c[i].productId = productId].quantity

C15_QuantityInRange ==
    /\ \A i \in DOMAIN cart : cart[i].quantity >= 1 /\ cart[i].quantity <= 99
    /\ (lastCall.fn = "updateCartItem" /\ lastCall.result) =>
          IF lastCall.arg <= 0
          THEN \A i \in DOMAIN lastCall.after :
                  lastCall.after[i].productId /= lastCall.productId
          ELSE QuantityOf(lastCall.after, lastCall.productId)
                  = (IF lastCall.arg > 99 THEN 99 ELSE lastCall.arg)

RECURSIVE SumOver(_, _)
SumOver(S, f) ==
    IF S = {} THEN 0
    ELSE LET x == CHOOSE y \in S : TRUE
         IN  f[x] + SumOver(S \ {x}, f)

PriceIn(products, productId) ==
    products[CHOOSE k \in DOMAIN products : products[k].id = productId].price

C17_TotalsAreSums ==
    lastCall.fn = "calculateTotal" =>
        LET c == lastCall.cart
            products == lastCall.products
            inCatalog == {i \in DOMAIN c :
                            \E k \in DOMAIN products : products[k].id = c[i].productId}
            line == [i \in inCatalog |->
                        PriceIn(products, c[i].productId) * c[i].quantity]
        IN  /\ lastCall.result.subtotal = SumOver(inCatalog, line)
            /\ lastCall.result.delivery = DELIVERY_CHARGE
            /\ lastCall.result.total
                  = lastCall.result.subtotal + lastCall.result.delivery

\* 2 x ghee at 800, next to an item whose product was removed
C17_Witness ==
    /\ lastCall.fn = "calculateTotal"
    /\ lastCall.cart = <<[productId |-> "curd", quantity |-> 1],
                         [productId |-> "ghee", quantity |-> 2]>>
    /\ lastCall.result = [subtotal |-> 1600, delivery |-> 0, total |-> 1600]

(***************************************************************************)
(* C18: validateCart fails for an empty cart, fails listing every cart     *)
(* item whose product is no longer in stock, and fails when the subtotal   *)
(* is under the minimum order amount; isValid is true exactly when none of *)
(* the three applies.                                                      *)
(***************************************************************************)
C18_ValidateCartVerdict ==
    lastCall.fn = "validateCart" =>
        LET c == lastCall.cart
            store == lastCall.store
            soldOut == {i \in DOMAIN c :
                          \E k \in DOMAIN store :
                              store[k].id = c[i].productId /\ ~store[k].inStock}
            subtotal == calculateTotal(c, getProductsFromFirestore(store)).subtotal
            r == lastCall.result
        IN  /\ r.isValid <=> (c /= <<>> /\ soldOut = {}
                              /\ subtotal >= MIN_ORDER_AMOUNT)
            /\ c /= <<>> =>
                  \A i \in soldOut :
                      \E e \in DOMAIN r.errors :
                          r.errors[e] = c[i].productId \o " is out of stock"

(***************************************************************************)
(* C19: validateOrderData checks every rule on every payload: errors holds *)
(* exactly one message per violated rule (order identifier, requester      *)
(* identifier, customer block, at least one line item, and for a customer  *)
(* block its name, phone and address, total a positive number), and        *)
(* isValid is true exactly when errors is empty.                           *)
(***************************************************************************)
ViolatedRules(o) ==
    LET rules ==
          { <<o.orderId = "", "Order ID is required">>,
            <<o.userId = "", "User ID is required">>,
            <<~o.customer.present, "Customer details are required">>,
            <<~(o.items.isArray /\ o.items.length >= 1),
              "Order must contain at least one item">>,
            <<o.customer.present /\ o.customer.name = <<>>,
              "Customer name is required">>,
            <<o.customer.present /\ o.customer.phone = <<>>,
              "Customer phone is required">>,
            <<o.customer.present /\ o.customer.address = <<>>,
              "Customer address is required">>,
            <<~(o.total.isNumber /\ o.total.value > 0), "Invalid order total">> }
    IN  {rule[2] : rule \in {q \in rules : q[1]}}

C19_OneMessagePerRule ==
    lastCall.fn = "validateOrderData" =>
        /\ ~lastCall.result.threw
        /\ {lastCall.result.errors[i] : i \in DOMAIN lastCall.result.errors}
              = ViolatedRules(lastCall.orderData)
        /\ Len(lastCall.result.errors) = Cardinality(ViolatedRules(lastCall.orderData))
        /\ lastCall.result.isValid <=> (lastCall.result.errors = <<>>)

(***************************************************************************)
(* C20: validateCheckoutForm accepts a form exactly when the name has at   *)
(* least 2 characters, the phone is a 10-digit number starting with 6-9,   *)
(* optionally prefixed by +91 or 91, the address has at least 10           *)
(* characters, the delivery slot is one of the enumerated delivery slots,  *)
(* and the email is absent or well-formed.  Names and addresses are        *)
(* measured without the surrounding whitespace.                            *)
(***************************************************************************)
IndianMobile(phone) ==
    LET local == IF Len(phone) = 13 /\ SubSeq(phone, 1, 3) = <<"+", "9", "1">>
                 THEN SubSeq(phone, 4, 13)
                 ELSE IF Len(phone) = 12 /\ SubSeq(phone, 1, 2) = <<"9", "1">>
                 THEN SubSeq(phone, 3, 12)
                 ELSE phone
    IN  /\ Len(local) = 10
        /\ local[1] \in {"6", "7", "8", "9"}
        /\ \A i \in 1..10 : local[i] \in Digits

C20_AcceptsExactly ==
    lastCall.fn = "validateCheckoutForm" =>
        LET f == lastCall.formData
        IN  lastCall.result.isValid <=>
                /\ Len(trim(f.name)) >= 2
                /\ IndianMobile(f.phone)
                /\ Len(trim(f.address)) >= 10
                /\ f.deliverySlot \in DELIVERY_SLOTS
                /\ (f.email = <<>> \/ validateEmail(f.email))

(***************************************************************************)
(* C13: every order record checkout writes to the store has a non-empty    *)
(* list of line items, a strictly positive total, and a total equal to     *)
(* subtotal plus delivery charge.                                          *)
(***************************************************************************)
C13_WrittenOrdersWellFormed ==
    \A i \in DOMAIN orders :
        /\ Len(orders[i].items) > 0
        /\ orders[i].total > 0
        /\ orders[i].total = orders[i].subtotal + orders[i].deliveryCharge

\* the parts of C13 that hold whatever else runs
C13_ItemsAndSum ==
    \A i \in DOMAIN orders :
        /\ Len(orders[i].items) > 0
        /\ orders[i].total = orders[i].subtotal + orders[i].deliveryCharge

(***************************************************************************)
(* C21: every user-supplied input string that checkout writes to the store *)
(* (the fields of the order record and of the user-profile update) has     *)
(* been HTML-entity-escaped before it is stored.                           *)
(***************************************************************************)
Entities ==
    { <<"&", "a", "m", "p", ";">>, <<"&", "l", "t", ";">>, <<"&", "g", "t", ";">>,
      <<"&", "q", "u", "o", "t", ";">>, <<"&", "#", "x", "2", "7", ";">>,
      <<"&", "#", "x", "2", "F", ";">> }

\* no markup character is left, and every & begins an entity
IsEscaped(text) ==
    \A i \in DOMAIN text :
        /\ text[i] \notin {"<", ">", "\"", "'", "/"}
        /\ text[i] = "&" =>
              \E entity \in Entities :
                  /\ i + Len(entity) - 1 <= Len(text)
                  /\ SubSeq(text, i, i + Len(entity) - 1) = entity

C21_StoredStringsEscaped ==
    /\ \A i \in DOMAIN orders :
          /\ IsEscaped(orders[i].customer.name)
          /\ IsEscaped(orders[i].customer.email)
          /\ IsEscaped(orders[i].customer.phone)
          /\ IsEscaped(orders[i].customer.address)
          /\ IsEscaped(orders[i].customer.landmark)
          /\ IsEscaped(orders[i].specialInstructions)
    /\ \A uid \in DOMAIN users :
          /\ IsEscaped(users[uid].phone)
          /\ IsEscaped(users[uid].address)

\* the part of C21 that holds: the order record
C21_OrderFieldsEscaped ==
    \A i \in DOMAIN orders :
        /\ IsEscaped(orders[i].customer.name)
        /\ IsEscaped(orders[i].customer.email)
        /\ IsEscaped(orders[i].customer.phone)
        /\ IsEscaped(orders[i].customer.address)
        /\ IsEscaped(orders[i].customer.landmark)
        /\ IsEscaped(orders[i].specialInstructions)

(***************************************************************************)
(* C22: generateOrderId returns a unique order identifier of the form      *)
(* ORD-YYYYMMDD-NNN: no two checkout attempts, including two on the same   *)
(* day, obtain the same identifier.                                        *)
(***************************************************************************)
C22_OrderIdsUnique ==
    lastCall.fn = "generateOrderId" =>
        /\ Len(lastCall.result) = 16
        /\ lastCall.result \notin lastCall.issued

\* the part of C22 that holds: the form ORD-YYYYMMDD-NNN
C22_OrderIdForm ==
    lastCall.fn = "generateOrderId" =>
        /\ Len(lastCall.result) = 16
        /\ lastCall.result \in
              {"ORD-20261102-000", "ORD-20261102-007", "ORD-20261102-042",
               "ORD-20261102-999", "ORD-20260212-000", "ORD-20260212-007",
               "ORD-20260212-042", "ORD-20260212-999"}

(***************************************************************************)
(* C23: a rejected rate-limit check does not record the attempt: the whole *)
(* table is the same after the check as before it; an accepted check       *)
(* changes only the entry of its own identifier.  Stated on steps: when    *)
(* the table changes, the check of that step was accepted and every entry  *)
(* of another identifier is as it was.                                     *)
(***************************************************************************)
C23_CheckFrame ==
    [][rateLimitStore' /= rateLimitStore =>
          /\ ~lastCheck'.limited
          /\ \A ip \in DOMAIN rateLimitStore :
                ip /= lastCheck'.ip =>
                    /\ ip \in DOMAIN rateLimitStore'
                    /\ rateLimitStore'[ip] = rateLimitStore[ip]
          /\ DOMAIN rateLimitStore' = DOMAIN rateLimitStore \cup {lastCheck'.ip}]_vars

\* a check was rejected while another identifier has an entry
C23_Witness ==
    /\ lastCheck.limited
    /\ \E ip \in DOMAIN rateLimitStore :
          ip /= lastCheck.ip /\ rateLimitStore[ip] /= <<>>

(***************************************************************************)
(* C30: immediately after a rate-limit check of an identifier, its table   *)
(* entry holds at most 5 timestamps, in non-decreasing order, all less     *)
(* than one hour old; and an identifier once entered in the table is never *)
(* removed from it.                                                        *)
(***************************************************************************)
C30_EntryShape ==
    /\ lastCheck.ip /= "none" =>
          LET entry == rateLimitStore[lastCheck.ip]
          IN  /\ Len(entry) <= 5
              /\ \A i, j \in DOMAIN entry : i < j => entry[i] <= entry[j]
              /\ \A i \in DOMAIN entry : lastCheck.at - entry[i] < 60 * 60 * 1000
    /\ \A ip \in IPs : accepted[ip] /= <<>> => ip \in DOMAIN rateLimitStore

\* a check purged a timestamp that had become one hour old
C30_Witness ==
    /\ lastCheck.ip /= "none"
    /\ ~lastCheck.limited
    /\ Len(accepted[lastCheck.ip]) > Len(rateLimitStore[lastCheck.ip])

(***************************************************************************)
(* C24: in the handler the owner notification and the customer             *)
(* confirmation are both issued before either is awaited, and the response *)
(* is sent only after both have settled; a failure or delay of one never   *)
(* prevents the other from being attempted or from completing.             *)
(***************************************************************************)
C24_BothIssued ==
    \A slot \in Slots :
        (inflight[slot].pc = "waiting"
         /\ inflight[slot].body.customer.email /= <<>>)
            => Len(inflight[slot].notifications) = 2

C24_SettleStep ==
    \A slot \in Slots :
        inflight[slot].pc = "waiting" =>
            IF inflight'[slot].pc = "waiting"
            THEN /\ Len(inflight'[slot].notifications)
                       = Len(inflight[slot].notifications)
                 /\ \A i \in DOMAIN inflight[slot].notifications :
                       inflight[slot].notifications[i] \in {"true", "false"} =>
                           inflight'[slot].notifications[i]
                               = inflight[slot].notifications[i]
            ELSE \A i \in DOMAIN inflight[slot].notifications :
                     inflight[slot].notifications[i] \in {"true", "false"}

C24_NotificationsIndependent == [][C24_SettleStep /\ C24_BothIssued']_vars

\* the owner notification failed and the confirmation was sent all the same
C24_Witness ==
    \E slot \in Slots :
        /\ inflight[slot].pc = "waiting"
        /\ inflight[slot].notifications = <<"false", "true">>

(***************************************************************************)
(* C27: the endpoint validates the order data before it checks the rate    *)
(* limit: a request whose payload is invalid does not consume one of the   *)
(* caller's 5 requests per hour.  Stated on steps: a request that is       *)
(* counted against its identifier has passed validation and goes on to the *)
(* notifications.                                                          *)
(***************************************************************************)
C27_InvalidNotCounted ==
    [][accepted' /= accepted =>
          \E slot \in Slots :
              /\ inflight[slot].pc = "idle"
              /\ inflight'[slot].pc = "waiting"]_vars

(***************************************************************************)
(* C25: a successful addToCart(p, q) adds q to the quantity of the         *)
(* existing item for p, or inserts a new item for p with quantity q, and   *)
(* leaves every other item unchanged; when several addToCart calls are in  *)
(* flight at once on one page, every one of them takes effect: each adds   *)
(* to the cart as it is stored when the call resumes, with the additions   *)
(* of the calls that resumed before it.                                    *)
(***************************************************************************)
QuantityOrZero(c, productId) ==
    IF \E i \in DOMAIN c : c[i].productId = productId
    THEN c[CHOOSE i \in DOMAIN c : c[i].productId = productId].quantity
    ELSE 0

C25_AddTakesEffect ==
    (lastCall.fn = "addToCart" /\ lastCall.result) =>
        LET before == lastCall.before
            after == lastCall.after
            p == lastCall.productId
            q == lastCall.arg
        IN  /\ IF \E i \in DOMAIN before : before[i].productId = p
               THEN /\ Len(after) = Len(before)
                    /\ \A i \in DOMAIN before :
                          after[i] = IF before[i].productId = p
                                     THEN [productId |-> p,
                                           quantity |-> before[i].quantity + q]
                                     ELSE before[i]
               ELSE after = before \o <<[productId |-> p, quantity |-> q]>>
            /\ QuantityOrZero(after, p) = QuantityOrZero(before, p) + q

\* two addToCart calls of one product were in flight together and both
\* succeeded
C25_Witness ==
    /\ lastCall.fn = "addToCart"
    /\ lastCall.result
    /\ lastCall.prev.fn = "addToCart"
    /\ lastCall.prev.result
    /\ lastCall.prev.inFlight = 2
    /\ lastCall.prev.productId = lastCall.productId
    /\ QuantityOrZero(lastCall.before, lastCall.productId) >= 1
    /\ QuantityOrZero(lastCall.after, lastCall.productId)
          = QuantityOrZero(lastCall.before, lastCall.productId) + lastCall.arg

(***************************************************************************)
(* C26: a cart operation that fails leaves the stored cart unchanged and   *)
(* returns false: addToCart for a product that is not in the catalog or is *)
(* out of stock, updateCartItem with a quantity >= 1 for a product that is *)
(* not in the cart, and any cart mutation whose write to local storage     *)
(* fails.                                                                  *)
(***************************************************************************)
C26_FailureLeavesCart ==
    lastCall.fn \in {"addToCart", "updateCartItem", "removeFromCart"} =>
        LET p == lastCall.productId
            failing ==
              \/ lastCall.writeFailed
              \/ /\ lastCall.fn = "addToCart"
                 /\ ~InStockInStore(p)
              \/ /\ lastCall.fn = "updateCartItem"
                 /\ lastCall.arg >= 1
                 /\ \A i \in DOMAIN lastCall.before : lastCall.before[i].productId /= p
        IN  /\ failing => ~lastCall.result
            /\ ~lastCall.result => (lastCall.after = lastCall.before
                                    /\ cart = lastCall.before)

\* the write of a cart mutation failed
C26_Witness ==
    /\ lastCall.fn = "updateCartItem"
    /\ lastCall.writeFailed
    /\ ~lastCall.result
    /\ cart = lastCall.before

(***************************************************************************)
(* C28: the catalog is requested from the server at most once successfully *)
(* per page session, however the calls of fetchProducts interleave; a call *)
(* after a success returns the cached list without a new request; a failed *)
(* fetch caches nothing and the error reaches the caller.                  *)
(***************************************************************************)
C28_OneSuccessfulRequest ==
    Cardinality({i \in DOMAIN fetches : fetches[i].state = "ok"}) <= 1

\* the parts of C28 that hold: a call that finds the cache written returns
\* it, and the cache is written only when a request has succeeded
C28_CacheReturnedAndWrittenOnSuccess ==
    /\ (lastCall.fn = "fetchProducts" /\ lastCall.outcome = "cached") =>
           /\ cachedProducts.loaded
           /\ lastCall.result = cachedProducts.list
    /\ cachedProducts.loaded =>
           \E i \in DOMAIN fetches : fetches[i].state = "ok"
    /\ (lastCall.fn = "fetchProducts" /\ lastCall.outcome = "threw") =>
           \E i \in DOMAIN fetches : fetches[i].state = "failed"

(***************************************************************************)
(* C29: the subtotal of a written order is the sum of the subtotals of its *)
(* items, also when the cart is modified while processCheckout runs.       *)
(***************************************************************************)
C29_SubtotalIsSumOfItems ==
    \A i \in DOMAIN orders :
        orders[i].subtotal
            = SumOver(DOMAIN orders[i].items,
                      [k \in DOMAIN orders[i].items |-> orders[i].items[k].subtotal])
====
